---- MODULE Spec2Model ----
(***************************************************************************)
(* A model of clink's key-chord binder (lib/src/binder.cpp) and of the     *)
(* line editor's driver loop (lib/src/line_editor_impl.cpp).               *)
(*                                                                         *)
(* Bytes are the integers 0..255.  A chord text is a C string: a sequence  *)
(* of non-zero bytes, read with a terminating NUL after its last byte.     *)
(***************************************************************************)
EXTENDS Integers, Sequences, FiniteSets, TLC

VARIABLES
    chord_text,     \* translate_chord: the text handed to it
    translated,     \* translate_chord: its result, or NotRun before the call
    m_root,         \* binder::m_root
    m_nodes,        \* binder::m_nodes, the node arena
    m_next_node,    \* binder::m_next_node
    binder_backends,\* binder::m_backends, the backend table of the binder
    m_bind_resolver,\* line_editor_impl::m_bind_resolver; any resolver of the binder
    fed,            \* the bytes fed to the resolver since its last reset
    bind_log,       \* history: the (chord, backend, id) of every bind that succeeded
    last_bind,      \* history: the latest bind call, with the binder before it
    n_binds,        \* history: the number of bind calls made
    m_flags,        \* line_editor_impl::m_flags, the set of the flags set
    m_backends,     \* line_editor_impl::m_backends, in registration order
    m_generators,   \* line_editor_impl::m_generators, in registration order
    m_keys,         \* line_editor_impl::m_keys[0..m_keys_size-1]
    m_buffer,       \* line_editor_impl::m_buffer: its text and cursor
    m_words,        \* line_editor_impl::m_words
    m_command_offset, \* line_editor_impl::m_command_offset
    m_prev_key,     \* line_editor_impl::m_prev_key
    m_matches,      \* line_editor_impl::m_matches: the store's matches in order
    out_buf,        \* the caller's out buffer of edit and get_line
    pc,             \* "edit" while a call of edit is in its loop, else "idle"
    call,           \* history: the latest edit, update or get_line call, its result
    opened,         \* history: what begin_line opened and end_line has not closed
    n_begin,        \* history: the number of begin_line calls
    n_end,          \* history: the number of end_line calls
    misuse,         \* history: a begin on something open, an end on something closed
    last_update,    \* history: what the latest update call did
    pending_more,   \* history: the more_input result the resolver is latched by
    n_reads,        \* history: the number of bytes read from the terminal
    bind_input_calls, \* history: the backends whose bind_input was called, in order
    key_probe       \* two lines' end word and cursor, and what update_internal did

translateVars == <<chord_text, translated>>
binderVars == <<m_root, m_nodes, m_next_node, binder_backends>>
walkVars == <<m_bind_resolver, fed>>
histVars == <<bind_log, last_bind, n_binds>>
editorVars == <<m_flags, m_backends, m_generators, m_keys, m_buffer, m_words,
                m_command_offset, m_prev_key, m_matches, out_buf, pc, call,
                opened, n_begin, n_end, misuse, last_update, pending_more,
                n_reads, bind_input_calls>>
probeVars == <<key_probe>>
vars == <<translateVars, binderVars, walkVars, histVars, editorVars, probeVars>>

-----------------------------------------------------------------------------
(* Bytes the source names.                                                 *)

Backslash == 92
Caret == 94
CharM == 77
CharC == 67
Dash == 45
Esc == 27
CharE == 101
CharT == 116
CharN == 110
CharR == 114
CharZero == 48
Tab == 9
Newline == 10
Return == 13
CharA == 97
CharB == 98
HighByte == 200
\* the size of bind's buffer, char translated[64]
SIZE == 64

\* c & 0x1f
Low5(c) == c % 32

\* chord[p] of a C string: the byte at (1-based) p, the NUL right after it
At(text, p) == IF p <= Len(text) THEN text[p] ELSE 0

NotRun == [ok |-> FALSE, out |-> <<>>, term |-> FALSE, ran |-> FALSE]

-----------------------------------------------------------------------------
(* translate_chord.  out is the sequence out[0..i-1] written so far; i is  *)
(* its length on every path but the lone backslash.  term says that the    *)
(* closing out[i] = '\0' landed inside the buffer.                         *)

\* the switch's "escape sequences for convenience" and its default
Mut_escape_byte(d) ==
    CASE d = CharE -> Esc
      [] d = CharT -> Tab
      [] d = CharN -> Newline
      [] d = CharR -> Return
      [] OTHER -> d

escape_byte(d) ==
    CASE d = CharE -> Esc
      [] d = CharT -> Tab
      [] d = CharN -> Newline
      [] d = CharR -> Return
      [] d = CharZero -> 0
      [] OTHER -> d

RECURSIVE translate_loop(_, _, _)
translate_loop(text, p, out) ==
    LET c == At(text, p)
        d == At(text, p + 1)
    IN  IF ~(Len(out) < SIZE - 1 /\ c # 0)
        THEN [ok |-> TRUE, out |-> out, term |-> TRUE, ran |-> TRUE]
        ELSE IF c # Backslash /\ c # Caret
        THEN translate_loop(text, p + 1, Append(out, c))
        ELSE IF c = Caret
        \* out[i] = *chord & 0x1f with chord still at the caret
        THEN translate_loop(text, p + 1, Append(out, Low5(c)))
        ELSE CASE d = 0 ->
                  \* i = SIZE; continue: ++i leaves the loop, and the closing
                  \* out[SIZE + 1] = '\0' is written past the buffer; nothing
                  \* terminates the bytes written so far
                  [ok |-> TRUE, out |-> out, term |-> FALSE, ran |-> TRUE]
               [] d = CharM ->
                  IF At(text, p + 2) # Dash
                  THEN [ok |-> FALSE, out |-> out, term |-> FALSE, ran |-> TRUE]
                  ELSE translate_loop(text, p + 3, Append(out, Esc))
               [] d = CharC ->
                  IF At(text, p + 2) # Dash
                  THEN [ok |-> FALSE, out |-> out, term |-> FALSE, ran |-> TRUE]
                  \* ++chord moves to the '-', and that is the byte masked
                  ELSE translate_loop(text, p + 3,
                                      Append(out, Low5(At(text, p + 2))))
               [] OTHER ->
                  translate_loop(text, p + 2, Append(out, escape_byte(d)))

translate_chord(text) == translate_loop(text, 1, <<>>)

-----------------------------------------------------------------------------
(* The binder: a trie of nodes in a fixed arena, and the table of the      *)
(* backends the bound nodes name.  A node pointer is the node's arena      *)
(* index, RootPtr for &m_root, NullPtr for nullptr.                        *)

\* the capacity of the arena the binder is driven with, scaled down
ArenaSize == 3

\* sizeof_array(m_nodes), the index that is no node: get_node answers nullptr
\* from it on
sentinal == Cardinality(DOMAIN m_nodes)

RootPtr == -1
NullPtr == -2

\* a backend pointer that is nullptr
NoBackend == 0

\* node new_child = {}
EmptyNode == [key |-> 0, usage |-> "unused", id_or_child |-> 0,
              backend |-> 0, sibling |-> 0]

\* the binder's fields as one value, for the operators below
Binder == [root |-> m_root, nodes |-> m_nodes, next |-> m_next_node,
           backends |-> binder_backends]

Deref(b, ptr) == IF ptr = RootPtr THEN b.root ELSE b.nodes[ptr]

Store(b, ptr, n) ==
    IF ptr = RootPtr THEN [b EXCEPT !.root = n]
    ELSE [b EXCEPT !.nodes[ptr] = n]

get_node(index) == IF index < sentinal THEN index ELSE NullPtr

\* the sibling chain from child on
RECURSIVE scan_siblings(_, _, _)
scan_siblings(b, child, key) ==
    IF child = NullPtr THEN NullPtr
    ELSE IF b.nodes[child].key = key THEN child
    ELSE scan_siblings(b, get_node(b.nodes[child].sibling), key)

find_child(b, parent, key) ==
    scan_siblings(b,
                  IF Deref(b, parent).usage = "parent"
                  THEN get_node(Deref(b, parent).id_or_child)
                  ELSE NullPtr,
                  key)

\* alloc_node and add_child; the result is the binder and the child pointer
add_child(b, parent, key) ==
    IF ~(b.next < sentinal)
    THEN [b |-> b, ptr |-> NullPtr]
    ELSE LET index == b.next
             p == Deref(b, parent)
             new_child == [EmptyNode EXCEPT
                             !.key = key,
                             !.sibling = IF p.usage = "parent"
                                         THEN p.id_or_child ELSE sentinal]
             b1 == [b EXCEPT !.next = index + 1, !.nodes[index] = new_child]
         IN  [b |-> Store(b1, parent, [p EXCEPT !.usage = "parent",
                                                !.id_or_child = index]),
              ptr |-> index]

insert_child(b, parent, key) ==
    LET child == find_child(b, parent, key)
    IN  IF child # NullPtr THEN [b |-> b, ptr |-> child]
        ELSE add_child(b, parent, key)

\* the capacity of binder::m_backends, scaled down
BackendSlots == 2

\* the index of backend in the table, appended when new; -1 when it is full
backend_index(b, backend) ==
    IF \E i \in 1..Len(b.backends) : b.backends[i] = backend
    THEN (CHOOSE i \in 1..Len(b.backends) : b.backends[i] = backend) - 1
    ELSE IF Len(b.backends) < BackendSlots THEN Len(b.backends) ELSE -1

add_backend(b, backend) ==
    IF backend_index(b, backend) = Len(b.backends)
    THEN [b EXCEPT !.backends = Append(b.backends, backend)]
    ELSE b

get_backend(b, index) ==
    IF index + 1 \in 1..Len(b.backends) THEN b.backends[index + 1]
    ELSE NoBackend

\* a char array read as a C string: the bytes before its first NUL
RECURSIVE CStr(_)
CStr(s) == IF s = <<>> \/ Head(s) = 0 THEN <<>>
           ELSE <<Head(s)>> \o CStr(Tail(s))

\* bind's loop over the translated chord: for (; *chord && parent != nullptr; ...)
RECURSIVE insert_walk(_, _, _)
insert_walk(b, parent, chord) ==
    IF chord = <<>> \/ parent = NullPtr THEN [b |-> b, ptr |-> parent]
    ELSE LET r == insert_child(b, parent, Head(chord))
         IN  insert_walk(r.b, r.ptr, Tail(chord))

\* binder::bind.  stack is what char translated[64] holds where translate_chord
\* wrote nothing: it is read only when the translation was left unterminated.
\* The result is the binder after the call, what it returned and the chord
\* it walked.
bind(b, text, backend, id, stack) ==
    IF \E k \in 1..Len(text) : text[k] >= 128
    THEN [b |-> b, ok |-> FALSE, chord |-> <<>>]
    ELSE LET t == translate_chord(text)
             chord == CStr(IF t.term THEN t.out ELSE t.out \o stack)
             index == backend_index(b, backend)
             w == insert_walk(add_backend(b, backend), RootPtr, chord)
         IN  IF ~t.ok THEN [b |-> b, ok |-> FALSE, chord |-> <<>>]
             ELSE IF index < 0 THEN [b |-> b, ok |-> FALSE, chord |-> chord]
             ELSE IF w.ptr = NullPtr \/ Deref(w.b, w.ptr).usage # "unused"
             THEN [b |-> w.b, ok |-> FALSE, chord |-> chord]
             ELSE [b |-> Store(w.b, w.ptr,
                               [Deref(w.b, w.ptr) EXCEPT
                                  !.usage = "bound",
                                  !.backend = index,
                                  !.id_or_child = id]),
                   ok |-> TRUE, chord |-> chord]

-----------------------------------------------------------------------------
(* bind_resolver, and binder::update_resolver walking it.                  *)

ResetResolver == [node_index |-> -1, resolved |-> FALSE,
                  backend |-> NoBackend, id |-> -1]

resolve(r, backend, id) ==
    [r EXCEPT !.resolved = TRUE, !.backend = backend, !.id = id]

update_resolver(b, key, r0) ==
    LET r == IF r0.resolved THEN ResetResolver ELSE r0
        current == IF r.node_index >= 0 THEN get_node(r.node_index)
                   ELSE RootPtr
        next == find_child(b, current, key)
    IN  IF next # NullPtr
        THEN IF b.nodes[next].usage = "parent"
             THEN [r EXCEPT !.node_index = next]
             ELSE IF b.nodes[next].usage = "bound"
             THEN resolve(r, get_backend(b, b.nodes[next].backend),
                          b.nodes[next].id_or_child)
             ELSE r
        ELSE resolve(r, NoBackend, -1)

\* a reset resolver fed the bytes of keys, one update_resolver call each
RECURSIVE feed_from(_, _, _)
feed_from(b, r, keys) ==
    IF keys = <<>> THEN r
    ELSE feed_from(b, update_resolver(b, Head(keys), r), Tail(keys))

feed(b, keys) == feed_from(b, ResetResolver, keys)

-----------------------------------------------------------------------------
(* The line editor.  Its fields are threaded through the operators below   *)
(* as one record; the binder is the field b.                               *)

\* the editor's own backend, m_backend, registered by the constructor
DefaultBackend == 1
\* backends the embedder registers with add_backend
ExtraBackend == 2
ChordBackend == 3
\* the generators the embedder registers with add_generator
FileGenerator == 1
WordGenerator == 2
PhraseGenerator == 3

\* the capacity of line_editor_impl::m_backends, scaled down
EditorSlots == 2
\* the capacity of line_editor_impl::m_generators, scaled down
GeneratorSlots == 1

\* sizeof_array(m_keys)
KeysSize == 8

\* m_prev_key = ~0u: every bit of the key's three bit-fields set
NoKey == [word_offset |-> 2047, word_length |-> 1023, cursor_pos |-> 2047]

\* an end word's offset and length and the cursor, of no line
NoTriple == [offset |-> 0, length |-> 0, cursor |-> 0]

NoProbe == [prev |-> NoTriple, next |-> NoTriple, stored |-> FALSE,
            compared |-> FALSE, generated |-> FALSE, selected |-> FALSE]

\* the descriptor: desc.word_delims, desc.partial_delims and desc.quote_pair;
\* desc.command_delims is null
Space == 32
Slash == 47
Quote == 34
word_delims == {Space}
partial_delims == {Slash}
quote_pair == <<Quote, Quote>>

NoLatch == [on |-> FALSE, backend |-> NoBackend, sub |-> 0]

NoRefresh == [called |-> FALSE, generated |-> FALSE, selected |-> FALSE,
              needle |-> <<>>, notified |-> <<>>]

NoWord == [offset |-> 0, length |-> 0, quoted |-> FALSE, delim |-> 0]

\* an accept_match call: the index it was given, the match count and the
\* buffer it found, whether it got past its two checks, and then the end word
\* and the match it used and what the host's path probe said of the word
NoAccept == [called |-> FALSE, index |-> 0, count |-> 0, applied |-> FALSE,
             before |-> [text |-> <<>>, cursor |-> 0], word |-> NoWord,
             match |-> <<>>, is_path |-> FALSE]

NoUpdate == [kind |-> "none", read |-> -1, consulted |-> FALSE,
             dispatched |-> FALSE, backend |-> NoBackend, keys |-> <<>>,
             id |-> -1, result |-> "none", payload |-> 0, effect |-> "none",
             latched |-> NoLatch, accept |-> NoAccept, refresh |-> NoRefresh]

NothingOpen == [terminal |-> FALSE, buffer |-> FALSE, hooks |-> <<>>]

Editor == [flags |-> m_flags, b |-> Binder, backends |-> m_backends,
           generators |-> m_generators, resolver |-> m_bind_resolver,
           keys |-> m_keys, buffer |-> m_buffer, words |-> m_words,
           command_offset |-> m_command_offset, prev_key |-> m_prev_key,
           matches |-> m_matches, out |-> out_buf, open |-> opened,
           n_begin |-> n_begin, n_end |-> n_end, misuse |-> misuse,
           last_update |-> last_update, pending_more |-> pending_more,
           bind_input_calls |-> bind_input_calls]

check_flag(e, flag) == flag \in e.flags

\* what each backend's bind_input binds: <<chord text, id>> pairs
bind_input(backend) ==
    CASE backend = DefaultBackend -> << <<(<<CharB>>), 1>> >>
      [] backend = ExtraBackend -> << <<(<<Backslash, CharE, CharA>>), 7>> >>
      [] OTHER -> << <<(<<Backslash, CharE, 91, 65>>), 7>>,
                     <<(<<Backslash, CharE, 91, CharA, CharA, CharA, CharA,
                          CharA, CharA>>), 8>> >>

\* one backend's bind_input: binder_impl.bind(chord, key) for each of its chords
RECURSIVE bind_each(_, _, _)
bind_each(b, backend, chords) ==
    IF chords = <<>> THEN b
    ELSE bind_each(bind(b, Head(chords)[1], backend, Head(chords)[2], <<0>>).b,
                   backend, Tail(chords))

RECURSIVE bind_backends(_, _)
bind_backends(b, backends) ==
    IF backends = <<>> THEN b
    ELSE bind_backends(bind_each(b, Head(backends), bind_input(Head(backends))),
                       Tail(backends))

initialise(e) ==
    IF check_flag(e, "init") THEN e
    ELSE [e EXCEPT !.b = bind_backends(e.b, e.backends),
                   !.bind_input_calls = e.bind_input_calls \o e.backends,
                   !.flags = e.flags \cup {"init"}]

\* the buffer's begin_line: a new, empty line
buffer_begin_line(buf) == [text |-> <<>>, cursor |-> 0]

Mut_begin_flags(flags) == {"editing"}

\* clear_flag(~flag_init); set_flag(flag_editing)
begin_flags(flags) == (flags \cap {"init"}) \cup {"editing"}

begin_line(e) ==
    [e EXCEPT
       !.flags = begin_flags(e.flags),
       !.resolver = ResetResolver,
       !.command_offset = 0,
       !.keys = <<>>,
       !.prev_key = NoKey,
       !.matches = <<>>,
       !.buffer = buffer_begin_line(e.buffer),
       !.open = [terminal |-> TRUE, buffer |-> TRUE, hooks |-> e.backends],
       !.n_begin = e.n_begin + 1,
       !.misuse = e.misuse \/ e.open.terminal \/ e.open.buffer,
       !.pending_more = NoLatch]

Mut_end_line_editing(e) ==
    [e EXCEPT
       !.open = NothingOpen,
       !.n_end = e.n_end + 1,
       !.misuse = e.misuse \/ ~e.open.terminal \/ ~e.open.buffer]

end_line(e) ==
    [e EXCEPT
       !.flags = e.flags \ {"editing"},
       !.open = NothingOpen,
       !.n_end = e.n_end + 1,
       !.misuse = e.misuse \/ ~e.open.terminal \/ ~e.open.buffer]

\* add_backend and add_generator: push_back gives no slot when the array is full
add_backend_editor(e, backend) ==
    IF Len(e.backends) < EditorSlots
    THEN [e |-> [e EXCEPT !.backends = Append(e.backends, backend)],
          ret |-> TRUE]
    ELSE [e |-> e, ret |-> FALSE]

add_generator(e, generator) ==
    IF Len(e.generators) < GeneratorSlots
    THEN [e |-> [e EXCEPT !.generators = Append(e.generators, generator)],
          ret |-> TRUE]
    ELSE [e |-> e, ret |-> FALSE]

\* str_base(out, out_size).copy(line): what fits before the closing NUL
str_copy(line, out_size) ==
    SubSeq(line, 1, IF Len(line) < out_size - 1 THEN Len(line)
                    ELSE out_size - 1)

Mut_get_line(e, out_size) ==
    LET copied(e1) ==
            [e |-> [e1 EXCEPT !.out = str_copy(e1.buffer.text, out_size)],
             ret |-> TRUE]
    IN  copied(IF check_flag(e, "editing") THEN end_line(e) ELSE e)

\* get_line: the editor after the call and the value returned
get_line(e, out_size) ==
    LET copied(e1) ==
            IF check_flag(e1, "eof") THEN [e |-> e1, ret |-> FALSE]
            ELSE [e |-> [e1 EXCEPT !.out = str_copy(e1.buffer.text, out_size)],
                  ret |-> TRUE]
    IN  copied(IF check_flag(e, "editing") THEN end_line(e) ELSE e)

Mut_record_input(e, key) == [e EXCEPT !.keys = <<key>>]

record_input(e, key) ==
    IF Len(e.keys) < KeysSize - 1 THEN [e EXCEPT !.keys = Append(e.keys, key)]
    ELSE e

-----------------------------------------------------------------------------
(* Words, matches and the buffer.  Offsets count from 0 as in the source;  *)
(* the byte at offset i of text is text[i + 1].                            *)

MaxLineLen == 2

\* the line buffer's insert, remove and set_cursor
buffer_insert(buf, bytes) ==
    [text |-> SubSeq(buf.text, 1, buf.cursor) \o bytes
                \o SubSeq(buf.text, buf.cursor + 1, Len(buf.text)),
     cursor |-> buf.cursor + Len(bytes)]

buffer_remove(buf, from, to) ==
    IF from >= to \/ to > Len(buf.text) THEN buf
    ELSE [text |-> SubSeq(buf.text, 1, from)
                     \o SubSeq(buf.text, to + 1, Len(buf.text)),
          cursor |-> IF buf.cursor >= to THEN buf.cursor - (to - from)
                     ELSE IF buf.cursor > from THEN from ELSE buf.cursor]

buffer_set_cursor(buf, pos) ==
    [buf EXCEPT !.cursor = IF pos > Len(buf.text) THEN Len(buf.text) ELSE pos]

\* texts a backend types and a generator offers
Foo == <<102, 111, 111>>
FooBar == <<102, 111, 111, 98, 97, 114>>
FooBaz == <<102, 111, 111, 98, 97, 122>>
HelloWo == <<104, 101, 108, 108, 111, 32, 119, 111>>
World == <<119, 111, 114, 108, 100>>
HelloWorld == <<104, 101, 108, 108, 111, 32, 119, 111, 114, 108, 100>>

\* the bytes a backend's on_input inserts at the cursor, by the name of what
\* it does
typed(effect) ==
    CASE effect = "insert" -> <<CharA>>
      [] effect = "slash" -> <<Slash>>
      [] effect = "space" -> <<Space>>
      [] effect = "quote" -> <<Quote>>
      [] effect = "foo" -> Foo
      [] effect = "hello wo" -> HelloWo
      [] OTHER -> <<>>

\* what a backend's on_input does to the buffer through its context: insert
\* bytes at the cursor, move the cursor one place left, or leave the buffer
\* alone
apply_effect(buf, effect) ==
    IF effect = "left"
    THEN buffer_set_cursor(buf, IF buf.cursor > 0 THEN buf.cursor - 1 ELSE 0)
    ELSE buffer_insert(buf, typed(effect))

\* str_tokeniser: the first offset at or after p that holds no delimiter
RECURSIVE skip_delims(_, _, _, _)
skip_delims(text, p, end, delims) ==
    IF p < end /\ text[p + 1] \in delims
    THEN skip_delims(text, p + 1, end, delims)
    ELSE p

\* str_tokeniser: where the token that holds offset q stops, a delimiter
\* outside quotes or the end
RECURSIVE token_end(_, _, _, _, _)
token_end(text, q, end, delims, in_quote) ==
    IF q >= end THEN end
    ELSE IF ~in_quote /\ text[q + 1] \in delims THEN q
    ELSE token_end(text, q + 1, end, delims,
                   IF in_quote THEN text[q + 1] # quote_pair[2]
                   ELSE text[q + 1] = quote_pair[1])

\* str_tokeniser::next until it gives no token: the words of text[p..end)
RECURSIVE tokens(_, _, _, _)
tokens(text, p, end, delims) ==
    LET from(start) ==
            LET upto(stop) ==
                    <<[offset |-> start, length |-> stop - start,
                       quoted |-> FALSE,
                       delim |-> IF stop < end THEN text[stop + 1] ELSE 0]>>
                    \o tokens(text, stop, end, delims)
            IN  IF start >= end THEN <<>>
                ELSE upto(token_end(text, start, end, delims, FALSE))
    IN  from(skip_delims(text, p, end, delims))

\* the length the end word w is cut to: one past its last partial delimiter
Mut_partial_length(text, w) == w.length

partial_length(text, w) ==
    LET found == {j \in 0..(w.length - 1) :
                     text[w.offset + j + 1] \in partial_delims}
    IN  IF found = {} THEN 0
        ELSE (CHOOSE j \in found : \A k \in found : k <= j) + 1

\* collect_words: m_words for the buffer's text and cursor
collect_words(text, cursor) ==
    LET unquoted(w) ==
            LET start_quoted == IF text[w.offset + 1] = quote_pair[1]
                                THEN 1 ELSE 0
                end_quoted == IF w.length > 1
                                 /\ text[w.offset + w.length] = quote_pair[1]
                              THEN 1 ELSE 0
            IN  IF w.length = 0 THEN w
                ELSE [w EXCEPT !.offset = w.offset + start_quoted,
                               !.length = w.length - (start_quoted + end_quoted),
                               !.quoted = (start_quoted = 1)]
        trimmed(ws) ==
            [ws EXCEPT ![Len(ws)].length = partial_length(text, ws[Len(ws)])]
        adjusted(ws) == trimmed([i \in 1..Len(ws) |-> unquoted(ws[i])])
        closed(ws) ==
            adjusted(IF ws = <<>>
                        \/ ws[Len(ws)].offset + ws[Len(ws)].length < cursor
                     THEN Append(ws, [offset |-> cursor, length |-> 0,
                                      quoted |-> FALSE, delim |-> 0])
                     ELSE ws)
    IN  closed(tokens(text, 0, cursor, word_delims))

\* what a registered generator adds to the store, in the order it adds it
Candidates == << <<CharB>>, <<Slash>> >>
WordCandidates == <<FooBaz, FooBar, <<CharA, Slash>> >>
PhraseCandidates == <<World, HelloWorld>>

matches_of(generator) ==
    CASE generator = FileGenerator -> Candidates
      [] generator = WordGenerator -> WordCandidates
      [] OTHER -> PhraseCandidates

\* match_pipeline::generate: the generators in registration order, up to the
\* first that returns true; each of these does
generate(generators) ==
    IF generators = <<>> THEN <<>> ELSE matches_of(Head(generators))

fold(c) == IF c \in 65..90 THEN c + 32 ELSE c

has_prefix(match, needle) ==
    /\ Len(needle) <= Len(match)
    /\ \A i \in 1..Len(needle) : fold(match[i]) = fold(needle[i])

\* match_pipeline::select
select(matches, needle) ==
    SelectSeq(matches, LAMBDA m : has_prefix(m, needle))

\* s sorts strictly before t, bytes compared without case
RECURSIVE sorts_before(_, _)
sorts_before(s, t) ==
    IF t = <<>> THEN FALSE
    ELSE IF s = <<>> THEN TRUE
    ELSE IF fold(Head(s)) # fold(Head(t)) THEN fold(Head(s)) < fold(Head(t))
    ELSE sorts_before(Tail(s), Tail(t))

\* match_pipeline::sort: ascending, ties in their order of arrival
RECURSIVE sort(_)
sort(matches) ==
    IF matches = <<>> THEN <<>>
    ELSE LET first == CHOOSE i \in 1..Len(matches) :
                         /\ \A k \in 1..Len(matches) :
                               ~sorts_before(matches[k], matches[i])
                         /\ \A k \in 1..(i - 1) :
                               sorts_before(matches[i], matches[k])
                                 \/ sorts_before(matches[k], matches[i])
         IN  <<matches[first]>>
               \o sort(SubSeq(matches, 1, first - 1)
                         \o SubSeq(matches, first + 1, Len(matches)))

\* path::clean, for a word the host takes for a path: a run of separators
\* becomes one
RECURSIVE path_clean(_)
path_clean(word) ==
    IF Len(word) < 2 THEN word
    ELSE IF word[1] = Slash /\ word[2] = Slash THEN path_clean(Tail(word))
    ELSE <<word[1]>> \o path_clean(Tail(word))

\* the refresh key, key_t: its 32-bit value is held as the three bit-fields
\* that make it up, word_offset : 11, word_length : 10 and cursor_pos : 11
Mut_pack_key(word_offset, word_length, cursor_pos) ==
    [word_offset |-> word_offset % 2048, word_length |-> word_length % 1024,
     cursor_pos |-> 0]

pack_key(word_offset, word_length, cursor_pos) ==
    [word_offset |-> word_offset % 2048, word_length |-> word_length % 1024,
     cursor_pos |-> cursor_pos % 2048]

\* key.cursor_pos = 0
Mut_zero_cursor(value) == value

zero_cursor(value) == [value EXCEPT !.cursor_pos = 0]

\* Should we generate new matches?
should_generate(prev_key, end_word) ==
    pack_key(end_word.offset, end_word.length, 0) # zero_cursor(prev_key)

Mut_should_select(prev_key, end_word, cursor) ==
    should_generate(prev_key, end_word)

\* Should we sort and select matches?
should_select(prev_key, end_word, cursor) ==
    pack_key(end_word.offset, end_word.length, cursor) # prev_key

-----------------------------------------------------------------------------
(* accept_match, dispatch, update_internal and update.                     *)

\* strchr(m_desc.partial_delims, match[last_char]) == nullptr: the match
\* makes no new partial word
Mut_completes(match) == TRUE

completes(match) == match[Len(match)] \notin partial_delims

\* the closing quote: strchr(m_desc.quote_pair, buf_ptr[pre_offset]) and the
\* byte of the pair that follows what it finds, or the byte itself when none
\* does
Mut_closing_quote(text, pre_offset) == <<>>

closing_quote(text, pre_offset) ==
    IF pre_offset >= 0 /\ pre_offset < Len(text)
       /\ text[pre_offset + 1] \in {quote_pair[1], quote_pair[2]}
    THEN <<quote_pair[2]>> ELSE <<>>

\* accept_match returning before it touches the buffer
accept_nothing(e, index) ==
    [e EXCEPT !.last_update.accept =
                  [NoAccept EXCEPT !.called = TRUE, !.index = index,
                                   !.count = Len(e.matches),
                                   !.before = e.buffer]]

\* accept_match from its second check on, index being below the match count.
\* is_path is what os::get_path_type finds for the word.
apply_match(e, index, is_path) ==
    LET end_word == e.words[Len(e.words)]
        match == e.matches[index + 1]
        closed(buf) ==
            IF ~completes(match) THEN buf
            ELSE buffer_insert(
                     buffer_insert(buf, closing_quote(buf.text,
                                                      end_word.offset - 1)),
                     <<Space>>)
        inserted(word) ==
            closed(buffer_insert(
                       buffer_set_cursor(
                           buffer_remove(e.buffer, end_word.offset,
                                         e.buffer.cursor),
                           end_word.offset),
                       IF is_path THEN path_clean(word) ELSE word))
    IN  IF match = <<>> THEN accept_nothing(e, index)
        ELSE [e EXCEPT
                !.buffer =
                    inserted(SubSeq(e.buffer.text, end_word.offset + 1,
                                    end_word.offset + end_word.length)
                               \o match),
                !.last_update.accept =
                    [called |-> TRUE, index |-> index,
                     count |-> Len(e.matches), applied |-> TRUE,
                     before |-> e.buffer, word |-> end_word, match |-> match,
                     is_path |-> is_path]]

\* accept_match with its check of the index left out: the last match stands
\* in for one that is not there
Mut_accept_match(e, index, is_path) ==
    IF e.matches = <<>> THEN accept_nothing(e, index)
    ELSE apply_match(e, IF index >= Len(e.matches) THEN Len(e.matches) - 1
                        ELSE index, is_path)

accept_match(e, index, is_path) ==
    IF index >= Len(e.matches) THEN accept_nothing(e, index)
    ELSE apply_match(e, index, is_path)

\* case editor_backend::result::eof: set_flag(flag_eof)
Mut_set_eof(e) == e

set_eof(e) == [e EXCEPT !.flags = e.flags \cup {"eof"}]

\* case editor_backend::result::more_input: set_id((result.value >> 8) & 0xff)
Mut_latch_more_input(r, payload) == ResetResolver

latch_more_input(r, payload) == [r EXCEPT !.id = payload % 256]

\* dispatch.  res is what the backend's on_input returns, effect what it does
\* to the buffer, is_path what the host's path probe finds.
dispatch(e, res, effect, is_path) ==
    LET backend == IF e.resolver.backend # NoBackend
                   THEN e.resolver.backend ELSE DefaultBackend
        switch(e1) ==
            CASE res.code = "eof" -> end_line(set_eof(e1))
              [] res.code = "done" -> end_line(e1)
              [] res.code = "accept_match" ->
                     [accept_match(e1, res.payload % 65536, is_path)
                        EXCEPT !.resolver = ResetResolver]
              [] res.code = "redraw" ->
                     [e1 EXCEPT !.resolver = ResetResolver]
              [] res.code = "next" ->
                     [e1 EXCEPT !.resolver = ResetResolver]
              [] res.code = "more_input" ->
                     [e1 EXCEPT
                        !.resolver = latch_more_input(e1.resolver,
                                                      res.payload),
                        !.pending_more = [on |-> TRUE, backend |-> backend,
                                          sub |-> res.payload % 256]]
    IN  IF ~e.resolver.resolved THEN e
        ELSE switch([e EXCEPT
                       !.keys = <<>>,
                       !.buffer = apply_effect(e.buffer, effect),
                       !.last_update = [e.last_update EXCEPT
                                          !.dispatched = TRUE,
                                          !.backend = backend,
                                          !.keys = e.keys,
                                          !.id = e.resolver.id,
                                          !.result = res.code,
                                          !.payload = res.payload,
                                          !.effect = effect],
                       !.pending_more = NoLatch])

update_internal(e0) ==
    LET refreshed(e, regenerate, reselect, next_key, needle) ==
            [e EXCEPT
               !.matches =
                   IF reselect
                   THEN sort(select(IF regenerate THEN generate(e.generators)
                                    ELSE e.matches, needle))
                   ELSE IF regenerate THEN generate(e.generators)
                   ELSE e.matches,
               !.prev_key = IF reselect THEN next_key ELSE e.prev_key,
               !.last_update = [e.last_update EXCEPT
                                  !.refresh =
                                      [called |-> TRUE,
                                       generated |-> regenerate,
                                       selected |-> reselect,
                                       needle |-> IF reselect THEN needle
                                                  ELSE <<>>,
                                       notified |-> IF reselect
                                                    THEN e.backends
                                                    ELSE <<>>]]]
        keyed(e, end_word) ==
            refreshed(e,
                      should_generate(e.prev_key, end_word),
                      should_select(e.prev_key, end_word, e.buffer.cursor),
                      pack_key(end_word.offset, end_word.length,
                               e.buffer.cursor),
                      SubSeq(e.buffer.text,
                             end_word.offset + end_word.length + 1,
                             e.buffer.cursor))
        collected(e) == keyed(e, e.words[Len(e.words)])
    IN  collected([e0 EXCEPT
                     !.words = collect_words(e0.buffer.text, e0.buffer.cursor),
                     !.command_offset = 0])

\* if (!m_bind_resolver.is_resolved()) update_internal(): whether update goes
\* on to refresh the matches once dispatch and draw are done
Mut_refresh_due(r) == r.resolved

refresh_due(r) == ~r.resolved

\* update: the editor after the call and the value returned.  key is the byte
\* terminal->read() gives, used only when the call gets as far as reading.
update(e0, key, res, effect, is_path) ==
    LET returned(e3) ==
            IF ~check_flag(e3, "editing")
            THEN [e |-> e3, ret |-> FALSE, read |-> TRUE]
            ELSE [e |-> IF refresh_due(e3.resolver) THEN update_internal(e3)
                        ELSE e3,
                  ret |-> TRUE, read |-> TRUE]
        resolved(e1) ==
            IF ~e1.resolver.resolved
            THEN [e1 EXCEPT !.resolver =
                              update_resolver(e1.b, key, e1.resolver)]
            ELSE e1
        recorded(e) ==
            [record_input(e, key) EXCEPT
               !.last_update = [NoUpdate EXCEPT
                                  !.kind = "key",
                                  !.read = key,
                                  !.consulted = ~e.resolver.resolved,
                                  !.latched = e.pending_more]]
        began(e) ==
            update_internal([begin_line(e) EXCEPT
                               !.last_update =
                                   [NoUpdate EXCEPT !.kind = "begin"]])
        initialised(e) ==
            IF ~check_flag(e, "editing")
            THEN [e |-> began(e), ret |-> TRUE, read |-> FALSE]
            ELSE returned(dispatch(resolved(recorded(e)), res, effect,
                                   is_path))
    IN  initialised(initialise(e0))

-----------------------------------------------------------------------------
(* The editor as its constructor leaves it.                                *)

EditorConstructed ==
    /\ m_flags = {}
    /\ m_backends = <<DefaultBackend>>
    /\ m_generators = <<>>
    /\ m_keys = <<>>
    /\ m_buffer = [text |-> <<>>, cursor |-> 0]
    /\ m_words = <<>>
    /\ m_command_offset = 0
    /\ m_prev_key = NoKey
    /\ m_matches = <<>>
    /\ out_buf = <<>>
    /\ pc = "idle"
    /\ call = [op |-> "none", ret |-> FALSE, out_size |-> 0]
    /\ opened = NothingOpen
    /\ n_begin = 0
    /\ n_end = 0
    /\ misuse = FALSE
    /\ last_update = NoUpdate
    /\ pending_more = NoLatch
    /\ n_reads = 0
    /\ bind_input_calls = <<>>

-----------------------------------------------------------------------------
(* The texts the translator is run on.                                     *)

MaxTextLen == 4

TextBytes == {Backslash, Caret, CharM, CharC, Dash, CharA, CharE, CharZero,
              HighByte}

Texts == UNION {[1..n -> TextBytes] : n \in 0..MaxTextLen}

NoBind == [called |-> FALSE, text |-> <<>>, chord |-> <<>>, backend |-> 0,
           id |-> 0, ok |-> FALSE, translated |-> NotRun,
           before |-> [root |-> EmptyNode, nodes |-> <<>>, next |-> 0,
                       backends |-> <<>>],
           log_before |-> {}]

InitTranslate ==
    /\ chord_text \in Texts
    /\ translated = NotRun
    /\ key_probe = NoProbe
    /\ m_root = EmptyNode
    /\ m_nodes = [i \in 0..(ArenaSize - 1) |-> EmptyNode]
    /\ m_next_node = 0
    /\ binder_backends = <<>>
    /\ m_bind_resolver = ResetResolver
    /\ fed = <<>>
    /\ bind_log = {}
    /\ last_bind = NoBind
    /\ n_binds = 0
    /\ EditorConstructed

Translate ==
    /\ ~translated.ran
    /\ translated' = translate_chord(chord_text)
    /\ UNCHANGED <<chord_text, binderVars, walkVars, histVars, editorVars,
                   probeVars>>

NextTranslate == Translate

SpecTranslate == InitTranslate /\ [][NextTranslate]_vars

-----------------------------------------------------------------------------
(* The binder driven by its callers: bind calls with any text, backend and *)
(* id, and a resolver fed bytes through update_resolver.                   *)

MaxBinds == 3
MaxFeed == 3

BindTexts == {<<CharA>>, <<CharB>>, <<CharA, CharB>>, <<CharA, CharB, CharA>>,
              <<CharA, CharB, CharA, CharB>>, <<>>, <<Backslash>>, <<Backslash, CharZero>>,
              <<Backslash, CharM>>, <<HighByte>>}

\* the (backend, id) pairs bind is called with
BindTargets == {<<1, 7>>, <<2, 8>>, <<3, 7>>}

\* what the uninitialised part of translated[] may hold
StackTails == {<<0>>, <<CharB, 0>>}

FeedBytes == {CharA, CharB}

InitBinder ==
    /\ chord_text = <<>>
    /\ translated = NotRun
    /\ key_probe = NoProbe
    /\ m_root = EmptyNode
    /\ m_nodes = [i \in 0..(ArenaSize - 1) |-> EmptyNode]
    /\ m_next_node = 0
    /\ binder_backends = <<>>
    /\ m_bind_resolver = ResetResolver
    /\ fed = <<>>
    /\ bind_log = {}
    /\ last_bind = NoBind
    /\ n_binds = 0
    /\ EditorConstructed

Bind(text, backend, id, stack) ==
    LET r == bind(Binder, text, backend, id, stack)
    IN  /\ m_root' = r.b.root
        /\ m_nodes' = r.b.nodes
        /\ m_next_node' = r.b.next
        /\ binder_backends' = r.b.backends
        /\ bind_log' = IF r.ok
                       THEN bind_log \cup {[chord |-> r.chord,
                                            backend |-> backend, id |-> id]}
                       ELSE bind_log
        /\ last_bind' = [called |-> TRUE, text |-> text, chord |-> r.chord,
                         backend |-> backend, id |-> id, ok |-> r.ok,
                         translated |->
                             IF \E k \in 1..Len(text) : text[k] >= 128
                             THEN NotRun ELSE translate_chord(text),
                         before |-> Binder, log_before |-> bind_log]
        \* a resolver holds a node index: a walk does not span a bind
        /\ m_bind_resolver' = ResetResolver
        /\ fed' = <<>>
        /\ n_binds' = n_binds + 1
        /\ UNCHANGED <<probeVars, translateVars, editorVars>>

BindCall ==
    /\ n_binds < MaxBinds
    /\ \E text \in BindTexts, target \in BindTargets, stack \in StackTails :
          /\ translate_chord(text).term => stack = <<0>>
          /\ Bind(text, target[1], target[2], stack)

\* one byte arrives: m_binder.update_resolver(key, m_bind_resolver)
Feed ==
    /\ Len(fed) < MaxFeed
    /\ \E key \in FeedBytes :
          /\ m_bind_resolver' = update_resolver(Binder, key, m_bind_resolver)
          /\ fed' = IF m_bind_resolver.resolved THEN <<key>> ELSE Append(fed, key)
    /\ UNCHANGED <<probeVars, translateVars, binderVars, histVars, editorVars>>

\* bind_resolver::reset
ResetWalk ==
    /\ fed # <<>>
    /\ m_bind_resolver' = ResetResolver
    /\ fed' = <<>>
    /\ UNCHANGED <<probeVars, translateVars, binderVars, histVars, editorVars>>

NextBinder == BindCall \/ Feed \/ ResetWalk

SpecBinder == InitBinder /\ [][NextBinder]_vars

-----------------------------------------------------------------------------
(* The editor driven by its embedder: add_backend, add_generator, edit,    *)
(* update and get_line calls, the terminal's bytes and the backends'       *)
(* results.                                                                *)

MaxUpdates == 4

TermBytes == {Esc, CharA, CharB}
SubIds == {42}
MatchIndexes == {0, 1}
OutSizes == {2}

Results == [code : {"next", "redraw", "done", "eof"}, payload : {0}]
               \cup [code : {"more_input"}, payload : SubIds]
               \cup [code : {"accept_match"}, payload : MatchIndexes]

Effects == {"none", "insert"}

InitEditor ==
    /\ chord_text = <<>>
    /\ translated = NotRun
    /\ key_probe = NoProbe
    /\ m_root = EmptyNode
    /\ m_nodes = [i \in 0..(ArenaSize - 1) |-> EmptyNode]
    /\ m_next_node = 0
    /\ binder_backends = <<>>
    /\ m_bind_resolver = ResetResolver
    /\ fed = <<>>
    /\ bind_log = {}
    /\ last_bind = NoBind
    /\ n_binds = 0
    /\ EditorConstructed

\* the editor's fields from the record e
SetEditor(e) ==
    /\ m_flags' = e.flags
    /\ m_root' = e.b.root
    /\ m_nodes' = e.b.nodes
    /\ m_next_node' = e.b.next
    /\ binder_backends' = e.b.backends
    /\ m_backends' = e.backends
    /\ m_generators' = e.generators
    /\ m_bind_resolver' = e.resolver
    /\ m_keys' = e.keys
    /\ m_buffer' = e.buffer
    /\ m_words' = e.words
    /\ m_command_offset' = e.command_offset
    /\ m_prev_key' = e.prev_key
    /\ m_matches' = e.matches
    /\ out_buf' = e.out
    /\ opened' = e.open
    /\ n_begin' = e.n_begin
    /\ n_end' = e.n_end
    /\ misuse' = e.misuse
    /\ last_update' = e.last_update
    /\ pending_more' = e.pending_more
    /\ bind_input_calls' = e.bind_input_calls

\* what an update call takes in: nothing when it begins a line, and when a
\* line is being edited the byte the terminal gives, what the backend that
\* gets it returns, what that backend does to the buffer and, for a match to
\* accept, what the host's path probe finds
UpdateInputs ==
    IF "editing" \in m_flags
    THEN {in \in [key : TermBytes, res : Results, effect : Effects,
                  is_path : BOOLEAN] :
             /\ in.is_path => in.res.code = "accept_match"
             /\ Len(m_buffer.text) + Len(typed(in.effect)) <= MaxLineLen}
    ELSE {[key |-> 0, res |-> [code |-> "next", payload |-> 0],
           effect |-> "none", is_path |-> FALSE]}

\* an update call may run: the model's bound on the update calls made, each
\* of which begins a line or reads a byte
MayUpdate == n_begin + n_reads < MaxUpdates

\* line_editor_impl::add_backend, called by the embedder between lines
AddBackend ==
    /\ pc = "idle"
    /\ "editing" \notin m_flags
    /\ \E r \in {add_backend_editor(Editor, ExtraBackend)} : SetEditor(r.e)
    /\ UNCHANGED <<probeVars, translateVars, fed, histVars, pc, call, n_reads>>

\* line_editor_impl::add_generator, called by the embedder between lines
AddGenerator ==
    /\ pc = "idle"
    /\ "editing" \notin m_flags
    /\ \E r \in {add_generator(Editor, FileGenerator)} : SetEditor(r.e)
    /\ UNCHANGED <<probeVars, translateVars, fed, histVars, pc, call, n_reads>>

\* edit is called: its loop starts
EditCall ==
    /\ pc = "idle"
    /\ call' = [op |-> "edit_called", ret |-> FALSE, out_size |-> 0]
    /\ pc' = "edit"
    /\ UNCHANGED <<probeVars, translateVars, binderVars, walkVars, histVars, m_flags,
                   m_backends, m_generators, m_keys, m_buffer, m_words,
                   m_command_offset, m_prev_key, m_matches, out_buf, opened,
                   n_begin, n_end, misuse, last_update, pending_more, n_reads,
                   bind_input_calls>>

\* one turn of edit's loop: update, and when it returns false, get_line and
\* the return of edit
EditStep ==
    /\ pc = "edit"
    /\ MayUpdate
    /\ \E in \in UpdateInputs :
       \E u \in {update(Editor, in.key, in.res, in.effect, in.is_path)} :
          /\ n_reads' = IF u.read THEN n_reads + 1 ELSE n_reads
          /\ IF u.ret
             THEN /\ SetEditor(u.e)
                  /\ UNCHANGED <<pc, call>>
             ELSE \E out_size \in OutSizes :
                  \E g \in {get_line(u.e, out_size)} :
                     /\ SetEditor(g.e)
                     /\ pc' = "idle"
                     /\ call' = [op |-> "edit", ret |-> g.ret,
                                 out_size |-> out_size]
    /\ UNCHANGED <<probeVars, translateVars, fed, histVars>>

\* update called by the embedder itself
UpdateCall ==
    /\ pc = "idle"
    /\ MayUpdate
    /\ \E in \in UpdateInputs :
       \E u \in {update(Editor, in.key, in.res, in.effect, in.is_path)} :
          /\ n_reads' = IF u.read THEN n_reads + 1 ELSE n_reads
          /\ SetEditor(u.e)
          /\ call' = [op |-> "update", ret |-> u.ret, out_size |-> 0]
    /\ UNCHANGED <<probeVars, translateVars, fed, histVars, pc>>

\* get_line called by the embedder itself
GetLineCall ==
    /\ pc = "idle"
    /\ \E out_size \in OutSizes :
       \E g \in {get_line(Editor, out_size)} :
          /\ SetEditor(g.e)
          /\ call' = [op |-> "get_line", ret |-> g.ret, out_size |-> out_size]
    /\ UNCHANGED <<probeVars, translateVars, fed, histVars, pc, n_reads>>

NextEditor ==
    \/ AddBackend
    \/ AddGenerator
    \/ EditCall
    \/ EditStep
    \/ UpdateCall
    \/ GetLineCall

SpecEditor == InitEditor /\ [][NextEditor]_vars

-----------------------------------------------------------------------------
(* The editor completing words: a generator is registered, a line is begun, *)
(* backends type into it and accept matches.  Every byte read is one no    *)
(* chord starts with, so each update dispatches to the default backend.    *)

MaxAcceptUpdates == 4
MaxAcceptLen == 9

AcceptGenerators == {FileGenerator, WordGenerator, PhraseGenerator}
AcceptEffects == {"none", "left", "insert", "slash", "space", "quote", "foo",
                  "hello wo"}
AcceptIndexes == {0, 1, 2}

AcceptResults == [code : {"next"}, payload : {0}]
                     \cup [code : {"accept_match"}, payload : AcceptIndexes]

AcceptInputs ==
    IF "editing" \in m_flags
    THEN {in \in [key : {CharA}, res : AcceptResults, effect : AcceptEffects,
                  is_path : BOOLEAN] :
             /\ in.is_path => in.res.code = "accept_match"
             /\ Len(m_buffer.text) + Len(typed(in.effect)) <= MaxAcceptLen}
    ELSE {[key |-> 0, res |-> [code |-> "next", payload |-> 0],
           effect |-> "none", is_path |-> FALSE]}

\* line_editor_impl::add_generator, called before the first line
RegisterGenerator ==
    /\ pc = "idle"
    /\ "editing" \notin m_flags
    /\ m_generators = <<>>
    /\ \E generator \in AcceptGenerators :
       \E r \in {add_generator(Editor, generator)} : SetEditor(r.e)
    /\ UNCHANGED <<probeVars, translateVars, fed, histVars, pc, call, n_reads>>

\* update called by the embedder
AcceptUpdate ==
    /\ pc = "idle"
    /\ n_begin + n_reads < MaxAcceptUpdates
    /\ \E in \in AcceptInputs :
       \E u \in {update(Editor, in.key, in.res, in.effect, in.is_path)} :
          /\ n_reads' = IF u.read THEN n_reads + 1 ELSE n_reads
          /\ SetEditor(u.e)
          /\ call' = [op |-> "update", ret |-> u.ret, out_size |-> 0]
    /\ UNCHANGED <<probeVars, translateVars, fed, histVars, pc>>

NextAccept == RegisterGenerator \/ AcceptUpdate

SpecAccept == InitEditor /\ [][NextAccept]_vars

-----------------------------------------------------------------------------
(* The editor reading chords: a backend that binds \e[A and a chord of     *)
(* eight bytes is registered, and the terminal's bytes are read one update *)
(* at a time.  fed holds the bytes read since the latest dispatch or, if   *)
(* later, since the line was begun.                                        *)

MaxChordUpdates == 10
ChordArena == 10

\* ESC, [, A, Z and a
ChordBytes == {Esc, 91, 65, 90, CharA}

ChordResults == [code : {"next", "redraw", "done"}, payload : {0}]
                    \cup [code : {"more_input"}, payload : SubIds]
                    \cup [code : {"accept_match"}, payload : {0}]

ChordInputs ==
    IF "editing" \in m_flags
    THEN [key : ChordBytes, res : ChordResults, effect : {"none"},
          is_path : {FALSE}]
    ELSE {[key |-> 0, res |-> [code |-> "next", payload |-> 0],
           effect |-> "none", is_path |-> FALSE]}

InitChord ==
    /\ chord_text = <<>>
    /\ translated = NotRun
    /\ key_probe = NoProbe
    /\ m_root = EmptyNode
    /\ m_nodes = [i \in 0..(ChordArena - 1) |-> EmptyNode]
    /\ m_next_node = 0
    /\ binder_backends = <<>>
    /\ m_bind_resolver = ResetResolver
    /\ fed = <<>>
    /\ bind_log = {}
    /\ last_bind = NoBind
    /\ n_binds = 0
    /\ EditorConstructed

\* line_editor_impl::add_backend, called by the embedder between lines
AddChordBackend ==
    /\ pc = "idle"
    /\ "editing" \notin m_flags
    /\ \E r \in {add_backend_editor(Editor, ChordBackend)} : SetEditor(r.e)
    /\ UNCHANGED <<probeVars, translateVars, fed, histVars, pc, call, n_reads>>

\* update called by the embedder
ChordUpdate ==
    /\ pc = "idle"
    /\ n_begin + n_reads < MaxChordUpdates
    /\ \E in \in ChordInputs :
       \E u \in {update(Editor, in.key, in.res, in.effect, in.is_path)} :
          /\ n_reads' = IF u.read THEN n_reads + 1 ELSE n_reads
          /\ fed' = IF ~u.read THEN <<>>
                    ELSE IF last_update.kind = "key" /\ ~last_update.dispatched
                    THEN Append(fed, in.key)
                    ELSE <<in.key>>
          /\ SetEditor(u.e)
          /\ call' = [op |-> "update", ret |-> u.ret, out_size |-> 0]
    /\ UNCHANGED <<probeVars, translateVars, histVars, pc>>

\* get_line called by the embedder, whatever the resolver is at
ChordGetLine ==
    /\ pc = "idle"
    /\ \E out_size \in OutSizes :
       \E g \in {get_line(Editor, out_size)} :
          /\ SetEditor(g.e)
          /\ call' = [op |-> "get_line", ret |-> g.ret, out_size |-> out_size]
    /\ UNCHANGED <<probeVars, translateVars, fed, histVars, pc, n_reads>>

NextChord == AddChordBackend \/ ChordUpdate \/ ChordGetLine

SpecChord == InitChord /\ [][NextChord]_vars

-----------------------------------------------------------------------------
(* update_internal's two key comparisons on lines of any length: on a line *)
(* just begun the refresh runs for a first end word and cursor, or for a   *)
(* second with the key of the first stored.                                *)

\* end word offsets, end word lengths and cursors around the widths of the
\* key's fields and at the end of the 16-bit range
KeyOffsets == {0, 1, 2047, 2048}
KeyLengths == {0, 1023, 1024}
KeyCursors == {0, 1, 2047, 2048, 4095, 65535}

\* the end word lies before the cursor
KeyTriples ==
    {t \in [offset : KeyOffsets, length : KeyLengths, cursor : KeyCursors] :
        t.offset + t.length <= t.cursor}

\* update_internal from the end word on: whether the generators run, whether
\* select and sort run, and the key stored
refresh_keys(prev_key, t) ==
    [generated |-> should_generate(prev_key, t),
     selected |-> should_select(prev_key, t, t.cursor),
     prev_key |-> IF should_select(prev_key, t, t.cursor)
                  THEN pack_key(t.offset, t.length, t.cursor)
                  ELSE prev_key]

InitKey ==
    /\ chord_text = <<>>
    /\ translated = NotRun
    /\ key_probe \in [prev : KeyTriples, next : KeyTriples,
                      stored : {FALSE}, compared : {FALSE},
                      generated : {FALSE}, selected : {FALSE}]
    /\ m_root = EmptyNode
    /\ m_nodes = [i \in 0..(ArenaSize - 1) |-> EmptyNode]
    /\ m_next_node = 0
    /\ binder_backends = <<>>
    /\ m_bind_resolver = ResetResolver
    /\ fed = <<>>
    /\ bind_log = {}
    /\ last_bind = NoBind
    /\ n_binds = 0
    /\ EditorConstructed

\* update_internal on a line whose end word and cursor are key_probe.prev
RefreshPrev ==
    /\ ~key_probe.stored
    /\ ~key_probe.compared
    /\ \E r \in {refresh_keys(m_prev_key, key_probe.prev)} :
          /\ m_prev_key' = r.prev_key
          /\ key_probe' = [key_probe EXCEPT !.stored = TRUE]
    /\ UNCHANGED <<translateVars, binderVars, walkVars, histVars, m_flags,
                   m_backends, m_generators, m_keys, m_buffer, m_words,
                   m_command_offset, m_matches, out_buf, pc, call, opened,
                   n_begin, n_end, misuse, last_update, pending_more, n_reads,
                   bind_input_calls>>

\* update_internal on a line whose end word and cursor are key_probe.next
RefreshNext ==
    /\ ~key_probe.compared
    /\ \E r \in {refresh_keys(m_prev_key, key_probe.next)} :
          /\ m_prev_key' = r.prev_key
          /\ key_probe' = [key_probe EXCEPT !.compared = TRUE,
                                            !.generated = r.generated,
                                            !.selected = r.selected]
    /\ UNCHANGED <<translateVars, binderVars, walkVars, histVars, m_flags,
                   m_backends, m_generators, m_keys, m_buffer, m_words,
                   m_command_offset, m_matches, out_buf, pc, call, opened,
                   n_begin, n_end, misuse, last_update, pending_more, n_reads,
                   bind_input_calls>>

NextKey == RefreshPrev \/ RefreshNext

SpecKey == InitKey /\ [][NextKey]_vars

-----------------------------------------------------------------------------
(* Properties of translate_chord, under SpecTranslate.                     *)

\* The notation as the documentation gives it, one construct at a time from
\* the left.  covered is FALSE when the text holds a construct these rules
\* leave open: a caret, \C-X, a backslash that ends the text.  With
\* meta_pair, \M-X stands for the two bytes ESC, X whatever X is; without it,
\* \M- stands for ESC and X is read by the rules as any other byte is.
RECURSIVE notation(_, _, _, _)
notation(text, p, out, meta_pair) ==
    LET c == At(text, p)
        d == At(text, p + 1)
        open == [covered |-> FALSE, ok |-> FALSE, out |-> <<>>]
        failure == [covered |-> TRUE, ok |-> FALSE, out |-> <<>>]
    IN  IF c = 0 THEN [covered |-> TRUE, ok |-> TRUE, out |-> out]
        ELSE IF c = Caret THEN open
        ELSE IF c # Backslash
        THEN notation(text, p + 1, Append(out, c), meta_pair)
        ELSE IF d = 0 THEN open
        ELSE IF d = CharM
        THEN IF At(text, p + 2) # Dash THEN failure
             ELSE IF ~meta_pair
             THEN notation(text, p + 3, Append(out, 27), meta_pair)
             ELSE IF At(text, p + 3) = 0 THEN open
             ELSE notation(text, p + 4, out \o <<27, At(text, p + 3)>>,
                           meta_pair)
        ELSE IF d = CharC
        THEN IF At(text, p + 2) # Dash THEN failure ELSE open
        ELSE notation(text, p + 2,
                      Append(out, IF d = 101 THEN 27
                                  ELSE IF d = 116 THEN 9
                                  ELSE IF d = 110 THEN 10
                                  ELSE IF d = 114 THEN 13
                                  ELSE IF d = 48 THEN 0
                                  ELSE d),
                      meta_pair)

Agrees(n) ==
    n.covered =>
        /\ translated.ok = n.ok
        /\ n.ok => translated.out = n.out /\ translated.term

\* C4: for every byte X, both \C-X and ^X translate to the single byte
\* X & 0x1f, X being consumed and not emitted as a further byte.
C4_ControlNotation ==
    translated.ran =>
        \A x \in TextBytes :
            (chord_text = <<Caret, x>>
                \/ chord_text = <<Backslash, CharC, Dash, x>>) =>
                /\ translated.ok
                /\ translated.term
                /\ translated.out = <<Low5(x)>>

-----------------------------------------------------------------------------
(* Properties of the binder, under SpecBinder.                             *)

IsPrefix(s, t) == Len(s) <= Len(t) /\ SubSeq(t, 1, Len(s)) = s
IsStrictPrefix(s, t) == Len(s) < Len(t) /\ IsPrefix(s, t)

\* feeding keys to a reset resolver ends in resolved(backend, id)
Resolves(b, keys, backend, id) ==
    LET r == feed(b, keys)
    IN  r.resolved /\ r.backend = backend /\ r.id = id

\* the latest bind call got as far as walking its chord
Walked == last_bind.called /\ last_bind.translated.ok

\* the node a chord leads to, by key alone
RECURSIVE node_of(_, _, _)
node_of(b, parent, chord) ==
    IF chord = <<>> \/ parent = NullPtr THEN parent
    ELSE node_of(b, find_child(b, parent, Head(chord)), Tail(chord))

\* C1: once bind(c, b1, id1) has succeeded, every later bind of c fails, and so
\* does every bind of a strict prefix of c; in both cases c, fed to a reset
\* resolver, still resolves to (b1, id1).
C1_BindUniqueness ==
    Walked =>
        \A e \in last_bind.log_before :
            (e.chord # <<>> /\ IsPrefix(last_bind.chord, e.chord)) =>
                /\ ~last_bind.ok
                /\ Resolves(Binder, e.chord, e.backend, e.id)

\* C2: once a chord p is bound, every bind of a chord that p is a strict
\* prefix of fails, the node of p stays bound, and p, fed to a reset resolver,
\* resolves to its (backend, id) after any later bind calls.
C2_NoExtensionThroughBound ==
    /\ \A e \in bind_log :
          e.chord # <<>> =>
              /\ Deref(Binder, node_of(Binder, RootPtr, e.chord)).usage = "bound"
              /\ Resolves(Binder, e.chord, e.backend, e.id)
    /\ Walked =>
          \A e \in last_bind.log_before :
              (e.chord # <<>> /\ IsStrictPrefix(e.chord, last_bind.chord)) =>
                  ~last_bind.ok

FeedSeqs == UNION {[1..n -> FeedBytes] : n \in 0..(MaxFeed - 1)}

\* the node the resolver r stands at
Current(r) == IF r.node_index >= 0 THEN get_node(r.node_index) ELSE RootPtr

\* C3: the bytes of a chord that bind accepted, fed to a reset resolver, end in
\* resolved(backend, id), the resolver walking (unresolved, node index set)
\* after each strict prefix; and a byte with no bound or parent child under
\* the current node ends in resolved(null, -1).
C3_ResolverWalk ==
    /\ \A e \in bind_log :
          e.chord # <<>> =>
              /\ Resolves(Binder, e.chord, e.backend, e.id)
              /\ \A k \in 1..(Len(e.chord) - 1) :
                    LET r == feed(Binder, SubSeq(e.chord, 1, k))
                    IN  ~r.resolved /\ r.node_index >= 0
    /\ \A keys \in FeedSeqs, key \in FeedBytes :
          LET r == feed(Binder, keys)
              child == find_child(Binder, Current(r), key)
          IN  (/\ ~r.resolved
               /\ \/ child = NullPtr
                  \/ Deref(Binder, child).usage \notin {"bound", "parent"}) =>
                  update_resolver(Binder, key, r)
                      = resolve(r, NoBackend, -1)

\* a text whose last byte is a backslash that no earlier byte escapes
EndsInLoneBackslash(text) ==
    /\ text # <<>>
    /\ text[Len(text)] = Backslash
    /\ \A k \in 1..(Len(text) - 1) : text[k] \notin {Backslash, Caret}

\* C6: translate_chord fails on a text that ends in a lone backslash, so bind
\* of it fails and binds no node.
C6_LoneBackslashRejected ==
    (last_bind.called /\ EndsInLoneBackslash(last_bind.text)) =>
        /\ ~last_bind.translated.ok
        /\ ~last_bind.ok
        /\ Binder.root = last_bind.before.root
        /\ Binder.nodes = last_bind.before.nodes

-----------------------------------------------------------------------------
(* Properties of the editor's driver loop, under SpecEditor.               *)

Min(a, b) == IF a < b THEN a ELSE b

\* the backend a resolved resolver dispatches to
Target(r) == IF r.backend # NoBackend THEN r.backend ELSE DefaultBackend

\* C7: when edit has returned, the update that ended the line dispatched a
\* done or an eof result; edit returned false exactly when that result was
\* eof, and when it returned true out holds the buffer's line, as many of its
\* bytes as out_size leaves room for.
C7_EditResult ==
    call.op = "edit" =>
        /\ last_update.dispatched
        /\ last_update.result \in {"done", "eof"}
        /\ (~call.ret) <=> (last_update.result = "eof")
        /\ call.ret =>
              /\ Len(out_buf) = Min(Len(m_buffer.text), call.out_size - 1)
              /\ IsPrefix(out_buf, m_buffer.text)

\* edit has returned true with a line in out after a done result
C7_Witness ==
    /\ call.op = "edit"
    /\ call.ret
    /\ last_update.result = "done"
    /\ out_buf = <<CharA>>

\* C8: once the eof flag is set it is never cleared, the editing flag is
\* never set again, begin_line never runs again, and every get_line and edit
\* that returns from then on returns false.
C8_EofLatchedForever ==
    [][("eof" \in m_flags) =>
           /\ "eof" \in m_flags'
           /\ "editing" \notin m_flags'
           /\ n_begin' = n_begin
           /\ call'.op \in {"edit", "get_line"} => ~call'.ret]_vars

\* C9: no begin_line runs on an open line and no end_line on a closed one;
\* the begin_line calls outnumber the end_line calls by one while a line is
\* being edited and equal them otherwise; what begin_line opened, the
\* terminal, the buffer and every backend's hook, is open exactly while the
\* line is edited; and when edit or get_line has returned every line begun
\* has been ended.
C9_BeginEndAlternate ==
    /\ ~misuse
    /\ n_begin - n_end = (IF "editing" \in m_flags THEN 1 ELSE 0)
    /\ ("editing" \in m_flags) =>
          opened = [terminal |-> TRUE, buffer |-> TRUE, hooks |-> m_backends]
    /\ ("editing" \notin m_flags) => opened = NothingOpen
    /\ call.op \in {"edit", "get_line"} => n_begin = n_end

\* a second line, neither done nor at eof, has been ended by get_line
C9_Witness ==
    /\ call.op = "get_line"
    /\ n_begin = 2
    /\ n_end = 2
    /\ last_update.result \notin {"done", "eof"}

\* C10: after a more_input result with sub-id s the resolver is resolved on
\* the backend that returned it, with id s; and an update that reads a byte
\* while the resolver is latched so does not consult the trie and calls that
\* backend's on_input with that one byte as keys and with id s.
C10_MoreInputLatch ==
    /\ last_update.result = "more_input" =>
          /\ pending_more.on
          /\ pending_more.sub = last_update.payload
          /\ pending_more.backend = last_update.backend
    /\ pending_more.on =>
          /\ m_bind_resolver.resolved
          /\ m_bind_resolver.id = pending_more.sub
          /\ Target(m_bind_resolver) = pending_more.backend
    /\ (last_update.kind = "key" /\ last_update.latched.on) =>
          /\ ~last_update.consulted
          /\ last_update.dispatched
          /\ last_update.backend = last_update.latched.backend
          /\ last_update.keys = <<last_update.read>>
          /\ last_update.id = last_update.latched.sub

\* a latched backend was handed a byte and returned more_input again
C10_Witness ==
    /\ last_update.kind = "key"
    /\ last_update.latched.on
    /\ last_update.latched.backend = ExtraBackend
    /\ last_update.dispatched
    /\ last_update.result = "more_input"

-----------------------------------------------------------------------------
(* Properties of the match refresh, under SpecEditor.                      *)

\* the end word of a word list
end_of(words) == words[Len(words)]

\* this step is an update call
UpdateRan == n_begin' + n_reads' # n_begin + n_reads

\* the key an update call's update_internal finds stored: begin_line has set
\* it to ~0u when the call begins a line
StoredKey == IF last_update'.kind = "begin" THEN NoKey ELSE m_prev_key

\* the end word's offset and length as the key's fields hold them
key_pair(w) == <<w.offset % 2048, w.length % 1024>>

\* C11: in every update_internal call of a line the generators are run again
\* exactly when the end word's (word_offset, word_length) differs from the
\* pair of the key stored by the refresh before it (from ~0u on the line's
\* first call); a call in which only the cursor has moved does not run them.
C11_RegenerationKey ==
    [][(UpdateRan /\ last_update'.refresh.called) =>
           (last_update'.refresh.generated <=>
               key_pair(end_of(m_words'))
                   # <<StoredKey.word_offset, StoredKey.word_length>>)]_vars

\* in the middle of a line the end word changed and the generators ran again
C11_Witness ==
    /\ last_update.kind = "key"
    /\ last_update.refresh.called
    /\ last_update.refresh.generated
    /\ m_generators # <<>>
    /\ m_buffer.text # <<>>

\* the end word's offset and length and the cursor as the key's fields hold
\* them
key_triple(w, cursor) == <<w.offset % 2048, w.length % 1024, cursor % 2048>>

\* matches is in ascending order and each match begins with needle
SelectedAndSorted(matches, needle) ==
    /\ \A i \in 1..Len(matches) : has_prefix(matches[i], needle)
    /\ \A i, j \in 1..Len(matches) :
          i < j => ~sorts_before(matches[j], matches[i])

ReadAndEditing == last_update.kind = "key" /\ "editing" \in m_flags

\* C16, as claimed: an update that reads a byte and leaves the resolver
\* walking a chord, nothing dispatched, skips update_internal; one that
\* dispatched a chord and leaves the line being edited calls it.
C16_RefreshAsClaimed ==
    ReadAndEditing =>
        /\ ~last_update.dispatched => ~last_update.refresh.called
        /\ last_update.dispatched => last_update.refresh.called

\* C16, amended: an update that reads a byte and leaves the line being edited
\* calls update_internal exactly when it leaves the resolver not resolved:
\* after a dispatch whose result reset it (next, redraw, accept_match), and
\* while a chord is being walked, when update_internal collects the words and
\* finds the key unchanged, so that it runs no generator, no select or sort
\* and notifies no backend.  It skips update_internal when the result was
\* more_input, which leaves the resolver resolved, and when the result ended
\* the line.
C16_RefreshUnlessLatched ==
    /\ ReadAndEditing =>
          /\ last_update.refresh.called <=> ~m_bind_resolver.resolved
          /\ m_bind_resolver.resolved <=> last_update.result = "more_input"
          /\ last_update.dispatched =>
                 last_update.result \in {"next", "redraw", "accept_match",
                                         "more_input"}
          /\ ~last_update.dispatched =>
                 /\ last_update.refresh.called
                 /\ ~last_update.refresh.generated
                 /\ ~last_update.refresh.selected
                 /\ last_update.refresh.notified = <<>>
    /\ last_update.result \in {"done", "eof"} => ~last_update.refresh.called

\* the first byte of a two-byte chord was read: nothing was dispatched, and
\* update_internal ran
C16_Witness ==
    /\ ReadAndEditing
    /\ last_update.read = Esc
    /\ ~last_update.dispatched
    /\ ~m_bind_resolver.resolved
    /\ m_bind_resolver.node_index >= 0
    /\ last_update.refresh.called

-----------------------------------------------------------------------------
(* Properties of accept_match, under SpecAccept.                           *)

\* C15: an update whose backend returns accept_match with an index that is
\* not below the match count leaves the buffer as the backend's on_input left
\* it, text and cursor, keeps the line being edited and returns true, and
\* leaves the resolver reset, nothing latched, so that the next byte is
\* looked up from the trie's root.
C15_IndexOutOfRange ==
    [][(/\ UpdateRan
        /\ last_update'.result = "accept_match"
        /\ last_update'.payload >= Len(m_matches)) =>
           /\ m_buffer' = apply_effect(m_buffer, last_update'.effect)
           /\ "editing" \in m_flags'
           /\ n_end' = n_end
           /\ call'.op = "update" => call'.ret
           /\ m_bind_resolver' = ResetResolver
           /\ pending_more' = NoLatch
           /\ feed_from(Binder', m_bind_resolver', <<CharB>>)
                  = feed(Binder', <<CharB>>)]_vars

\* accept_match was called with an index not below the count of the matches
\* the store held
C15_Witness ==
    /\ last_update.result = "accept_match"
    /\ last_update.accept.called
    /\ ~last_update.accept.applied
    /\ last_update.accept.count > 0
    /\ last_update.accept.index >= last_update.accept.count
    /\ m_buffer = last_update.accept.before
    /\ "editing" \in m_flags

\* accept_match got past its two checks: the index was below the match count
\* and the match was not empty; the cursor it found was not before the end
\* word
Accepted ==
    /\ last_update.accept.applied
    /\ last_update.accept.before.cursor >= last_update.accept.word.offset

\* the end word's text in the buffer accept_match found, followed by the match
ComposedWord ==
    LET a == last_update.accept
    IN  SubSeq(a.before.text, a.word.offset + 1, a.word.offset + a.word.length)
            \o a.match

\* the buffer holds the text accept_match found with everything from the end
\* word's offset to the cursor replaced by word, then by a closing quote or
\* by nothing, then by one space when the match's last byte is no partial
\* delimiter and by nothing when it is one; the cursor stands after that
AcceptedLine(word) ==
    LET a == last_update.accept
        space == IF a.match[Len(a.match)] \in partial_delims THEN <<>>
                 ELSE <<Space>>
    IN  \E quote \in {<<>>, <<quote_pair[2]>>} :
           /\ space = <<>> => quote = <<>>
           /\ m_buffer.text = SubSeq(a.before.text, 1, a.word.offset)
                                  \o word \o quote \o space
                                  \o SubSeq(a.before.text, a.before.cursor + 1,
                                            Len(a.before.text))
           /\ m_buffer.cursor = a.word.offset + Len(word \o quote \o space)

\* C12, as claimed: accept_match of a non-empty match m at a valid index
\* replaces buffer[w.offset .. cursor] with the end word's text followed by
\* m, leaves the text after the old cursor in place, and inserts one trailing
\* space exactly when the last byte of m is not in partial_delims.
C12_SpaceInsertionAsClaimed ==
    Accepted => AcceptedLine(ComposedWord)

\* C12, amended: the same, the end word's text followed by m being cleaned by
\* path::clean first when the host's probe takes it for a path.
C12_SpaceInsertion ==
    Accepted =>
        AcceptedLine(IF last_update.accept.is_path
                     THEN path_clean(ComposedWord) ELSE ComposedWord)

\* buffer "foo", cursor 3, and "foobar" accepted: "foobar " with cursor 7
C12_Witness ==
    /\ Accepted
    /\ last_update.effect = "none"
    /\ last_update.accept.before = [text |-> Foo, cursor |-> 3]
    /\ last_update.accept.match = FooBar
    /\ m_buffer = [text |-> FooBar \o <<Space>>, cursor |-> 7]

\* the word accept_match inserted: the composed word, cleaned when the host
\* takes it for a path
InsertedWord ==
    IF last_update.accept.is_path THEN path_clean(ComposedWord)
    ELSE ComposedWord

\* the buffer holds the text accept_match found with everything from the end
\* word's offset to the cursor replaced by the inserted word and tail
AcceptedWith(tail) ==
    LET a == last_update.accept
    IN  m_buffer.text = SubSeq(a.before.text, 1, a.word.offset)
                            \o InsertedWord \o tail
                            \o SubSeq(a.before.text, a.before.cursor + 1,
                                      Len(a.before.text))

\* the byte before the end word's offset is the quote pair's opening byte
AfterOpeningQuote ==
    /\ last_update.accept.word.offset > 0
    /\ last_update.accept.before.text[last_update.accept.word.offset]
           = quote_pair[1]

\* C13: when the accepted match's last byte is not in partial_delims and the
\* buffer byte just before the end word's offset is the quote pair's opening
\* byte, the closing byte stands directly after the inserted word and before
\* the trailing space; when the match ends in a partial delimiter nothing
\* follows the inserted word, no closing quote either.
C13_ClosingQuote ==
    Accepted =>
        LET m == last_update.accept.match
        IN  /\ (m[Len(m)] \notin partial_delims /\ AfterOpeningQuote) =>
                   AcceptedWith(<<quote_pair[2], Space>>)
            /\ m[Len(m)] \in partial_delims => AcceptedWith(<<>>)

\* a match that completes its word was accepted just after an opening quote,
\* the words being those collected for the buffer it was accepted into
C13_Witness ==
    /\ Accepted
    /\ last_update.effect = "none"
    /\ AfterOpeningQuote
    /\ last_update.accept.match = FooBar
    /\ m_buffer.text = <<Quote>> \o FooBar \o <<Quote, Space>>

\* the buffer of the quoted-argument scenario: an opening quote and hello wo,
\* the cursor at the end
QuotedBuffer == [text |-> <<Quote>> \o HelloWo, cursor |-> 9]

QuotedEndWord == end_of(collect_words(QuotedBuffer.text, QuotedBuffer.cursor))

\* accept_match ran on the scenario's buffer with the end word collect_words
\* gives for it
AcceptedQuoted ==
    /\ Accepted
    /\ last_update.accept.before = QuotedBuffer
    /\ last_update.accept.word = QuotedEndWord

\* C14, as claimed: for the buffer of an opening quote and hello wo with the
\* cursor at 9, collect_words gives an end word with quoted = true at offset
\* 1, and accepting the match "world" leaves the opening quote, hello world,
\* the closing quote and one space.
C14_QuotedCloseAsClaimed ==
    /\ QuotedEndWord.quoted
    /\ QuotedEndWord.offset = 1
    /\ (AcceptedQuoted /\ last_update.accept.match = World) =>
          m_buffer.text = <<Quote>> \o HelloWorld \o <<Quote, Space>>

\* C14, amended: the end word is quoted, at offset 1 and of length 0, all of
\* hello wo being the needle; an accepted match takes the place of everything
\* after the opening quote: accepting "hello world" leaves the opening quote,
\* hello world, the closing quote and one space, and accepting "world" leaves
\* the opening quote, world, the closing quote and one space.
C14_QuotedClose ==
    /\ QuotedEndWord.quoted
    /\ QuotedEndWord.offset = 1
    /\ QuotedEndWord.length = 0
    /\ (AcceptedQuoted /\ last_update.accept.match = HelloWorld) =>
          m_buffer = [text |-> <<Quote>> \o HelloWorld \o <<Quote, Space>>,
                      cursor |-> 14]
    /\ (AcceptedQuoted /\ last_update.accept.match = World) =>
          m_buffer = [text |-> <<Quote>> \o World \o <<Quote, Space>>,
                      cursor |-> 8]

\* hello wo was typed after an opening quote, the matches were refreshed for
\* it, and "hello world" was accepted
C14_Witness ==
    /\ AcceptedQuoted
    /\ last_update.effect = "none"
    /\ last_update.accept.match = HelloWorld
    /\ last_update.accept.index = 0
    /\ m_buffer.text = <<Quote>> \o HelloWorld \o <<Quote, Space>>

-----------------------------------------------------------------------------
(* Properties of the keys dispatch hands to on_input, under SpecChord.     *)

\* the latest update read a byte and called on_input
Dispatched == last_update.kind = "key" /\ last_update.dispatched

\* what the key scratch keeps of the bytes read
kept(bytes) == SubSeq(bytes, 1, Min(Len(bytes), KeysSize - 1))

\* C18 as stated: the keys handed to on_input are the bytes read from the
\* terminal since the previous dispatch, all of them and in their order.
C18_DispatchAsClaimed ==
    Dispatched => last_update.keys = fed

\* C18: when a chord resolves through the trie or misses, on_input is called
\* on the backend the trie gives for the bytes read since the previous
\* dispatch, the default backend with id -1 on a miss, and its keys are the
\* first sizeof_array(m_keys) - 1 of those bytes in the order they were read;
\* the key scratch is empty after the dispatch, and after a result of next,
\* redraw or accept_match the resolver is reset.  While no chord has resolved
\* no on_input is called and the scratch holds what it kept of the bytes
\* read.  With \e[A bound to a backend with id 7, the bytes ESC [ A give that
\* backend the keys ESC [ A with id 7, and the bytes ESC Z give the default
\* backend the keys ESC Z with id -1.
C18_DispatchKeys ==
    /\ Dispatched =>
          /\ last_update.keys = kept(fed)
          /\ m_keys = <<>>
          /\ ~last_update.latched.on =>
                /\ feed(Binder, fed).resolved
                /\ \A n \in 1..(Len(fed) - 1) :
                      ~feed(Binder, SubSeq(fed, 1, n)).resolved
                /\ last_update.backend = Target(feed(Binder, fed))
                /\ last_update.id = feed(Binder, fed).id
          /\ last_update.result \in {"next", "redraw", "accept_match"} =>
                m_bind_resolver = ResetResolver
    /\ (last_update.kind = "key" /\ ~last_update.dispatched) =>
          /\ ~feed(Binder, fed).resolved
          /\ m_keys = kept(fed)
    /\ (Dispatched /\ fed = <<Esc, 91, 65>>) =>
          /\ last_update.backend = ChordBackend
          /\ last_update.id = 7
          /\ last_update.keys = <<Esc, 91, 65>>
    /\ (Dispatched /\ fed = <<Esc, 90>>) =>
          /\ last_update.backend = DefaultBackend
          /\ last_update.id = -1
          /\ last_update.keys = <<Esc, 90>>

\* ESC [ A has been read and handed to the backend that binds \e[A
C18_Witness ==
    /\ Dispatched
    /\ fed = <<Esc, 91, 65>>
    /\ last_update.backend = ChordBackend
    /\ last_update.id = 7
    /\ last_update.keys = fed
    /\ last_update.result = "next"
    /\ m_bind_resolver = ResetResolver

-----------------------------------------------------------------------------
(* Properties of the root and of failed binds, under SpecBinder.           *)

\* C19: the root starts unused, is never bound, and is a parent once any bind
\* has returned success, whatever texts bind was called with, the empty text
\* and texts that translate to a leading NUL included.
C19_RootUsage ==
    /\ n_binds = 0 => m_root.usage = "unused"
    /\ m_root.usage # "bound"
    /\ bind_log # {} => m_root.usage = "parent"

\* the byte sequences a resolver is fed, up to the longest walk
WalkSeqs == UNION {[1..n -> FeedBytes] : n \in 0..MaxFeed}

\* what a resolver has come to: resolved or not, and on what
Outcome(r) == <<r.resolved, r.backend, r.id>>

\* C20: a bind call that returns failure leaves the outcome of feeding any
\* byte sequence to a reset resolver as it was before the call, so that a
\* sequence that resolved to (null, -1) still does; and once the arena is
\* full alloc_node gives the sentinel, add_child no node, and the binder is
\* left as it was.
C20_FailedBindFrame ==
    /\ (last_bind.called /\ ~last_bind.ok) =>
          \A keys \in WalkSeqs :
              Outcome(feed(Binder, keys))
                  = Outcome(feed(last_bind.before, keys))
    /\ m_next_node <= sentinal
    /\ m_next_node = sentinal =>
          \A key \in FeedBytes :
              add_child(Binder, RootPtr, key) = [b |-> Binder, ptr |-> NullPtr]

-----------------------------------------------------------------------------
(* Properties of initialise, under SpecEditor.                             *)

\* the backends registered when bind_input was first called
InitialBackends == SubSeq(m_backends, 1, Len(bind_input_calls))

\* C21: until the first update no bind_input has been called and the init
\* flag is not set; the first update sets the flag and calls bind_input once
\* for each backend registered by then, in registration order, the default
\* backend first; from then on, over any lines begun and ended by done, eof or
\* get_line, the flag stays set, no bind_input is called again and the
\* binder's chords stay as that update bound them.
C21_InitOnce ==
    [][/\ ("init" \notin m_flags) =>
              /\ bind_input_calls = <<>>
              /\ Binder = [root |-> EmptyNode,
                           nodes |-> [i \in DOMAIN m_nodes |-> EmptyNode],
                           next |-> 0, backends |-> <<>>]
       /\ ("init" \notin m_flags /\ UpdateRan) =>
              /\ "init" \in m_flags'
              /\ bind_input_calls' = m_backends
              /\ Head(bind_input_calls') = DefaultBackend
              /\ Binder' = bind_backends(Binder, m_backends)
       /\ ("init" \in m_flags) =>
              /\ "init" \in m_flags'
              /\ bind_input_calls' = bind_input_calls
              /\ bind_input_calls = InitialBackends
              /\ Binder' = Binder]_vars

\* a second line has been begun, after a first that a backend ended with
\* done, and bind_input has been called once on each of two backends
C21_Witness ==
    /\ n_begin = 2
    /\ n_end = 1
    /\ "init" \in m_flags
    /\ "editing" \in m_flags
    /\ m_backends = <<DefaultBackend, ExtraBackend>>
    /\ bind_input_calls = <<DefaultBackend, ExtraBackend>>

-----------------------------------------------------------------------------
(* Properties of the refresh key, under SpecKey.                           *)

\* the key of an end word and cursor
key_of(t) == pack_key(t.offset, t.length, t.cursor)

\* the end word and the cursor fit the key's fields
FitsKey(t) == t.offset < 2048 /\ t.length < 1024 /\ t.cursor < 2048

\* C22 as stated: two end word and cursor triples have equal keys only if
\* they are equal, so that a change of the end word's offset or length runs
\* the generators and a change of the cursor runs select and sort; and the
\* key begin_line stores is the key of no triple.
C22_KeyLosslessAsClaimed ==
    /\ key_of(key_probe.prev) = key_of(key_probe.next) =>
          key_probe.prev = key_probe.next
    /\ key_of(key_probe.next) # NoKey
    /\ (key_probe.compared /\ key_probe.stored) =>
          /\ key_probe.generated <=>
                <<key_probe.next.offset, key_probe.next.length>>
                    # <<key_probe.prev.offset, key_probe.prev.length>>
          /\ key_probe.selected <=> key_probe.next # key_probe.prev
    /\ (key_probe.compared /\ ~key_probe.stored) =>
          key_probe.generated /\ key_probe.selected

\* C22: the key keeps the end word's offset modulo 2^11, its length modulo
\* 2^10 and the cursor modulo 2^11.  Two triples have equal keys exactly when
\* they agree in those three residues, so triples that fit the fields
\* (offset and cursor below 2048, length below 1024) have equal keys only if
\* they are equal; between two such lines a change of the end word's offset or
\* length runs the generators and any change of the triple runs select and
\* sort.  The key begin_line stores is the one with every field at its
\* maximum; it differs from the key of every triple that fits the fields and
\* has the end word before the cursor, so the first refresh of such a line
\* runs the generators, select and sort.
C22_KeyFields ==
    /\ key_of(key_probe.prev) = key_of(key_probe.next) <=>
          key_triple(key_probe.prev, key_probe.prev.cursor)
              = key_triple(key_probe.next, key_probe.next.cursor)
    /\ (FitsKey(key_probe.prev) /\ FitsKey(key_probe.next)
          /\ key_of(key_probe.prev) = key_of(key_probe.next)) =>
          key_probe.prev = key_probe.next
    /\ (FitsKey(key_probe.next)
          /\ key_probe.next.offset + key_probe.next.length
                <= key_probe.next.cursor) =>
          key_of(key_probe.next) # NoKey
    /\ (key_probe.stored /\ ~key_probe.compared) =>
          m_prev_key = key_of(key_probe.prev)
    /\ key_probe.compared => m_prev_key = key_of(key_probe.next)
    /\ (key_probe.compared /\ key_probe.stored) =>
          /\ key_probe.generated <=>
                key_pair(key_probe.next) # key_pair(key_probe.prev)
          /\ key_probe.selected <=>
                key_triple(key_probe.next, key_probe.next.cursor)
                    # key_triple(key_probe.prev, key_probe.prev.cursor)
          /\ (FitsKey(key_probe.prev) /\ FitsKey(key_probe.next)) =>
                /\ key_probe.generated <=>
                      <<key_probe.next.offset, key_probe.next.length>>
                          # <<key_probe.prev.offset, key_probe.prev.length>>
                /\ key_probe.selected <=> key_probe.next # key_probe.prev
    /\ (key_probe.compared /\ ~key_probe.stored) =>
          /\ key_probe.generated <=> key_pair(key_probe.next) # <<2047, 1023>>
          /\ key_probe.selected <=> key_of(key_probe.next) # NoKey
          /\ FitsKey(key_probe.next) =>
                key_probe.generated /\ key_probe.selected

\* with the key of an empty line stored, the refresh of a line whose cursor
\* alone has moved runs select and sort and no generator
C22_Witness ==
    /\ key_probe.stored
    /\ key_probe.compared
    /\ key_probe.prev = [offset |-> 0, length |-> 0, cursor |-> 0]
    /\ key_probe.next = [offset |-> 0, length |-> 0, cursor |-> 1]
    /\ ~key_probe.generated
    /\ key_probe.selected
    /\ m_prev_key = pack_key(0, 0, 1)

====
